---- MODULE Spec2Model ----
(***************************************************************************)
(* Model of src/src/libs/embed/ed.js: the TikTokEmbed widget controller.   *)
(*                                                                         *)
(* Reading of renderVideos (lines 88-151).  The file holds two merged      *)
(* versions of the render body: the block opened by `if                    *)
(* (!tiktokScriptLoaded) {` on line 106 has no closing brace of its own.   *)
(* The model follows the statements in textual order with the block closed *)
(* where the indentation closes it (after line 111): lines 99-103 are the  *)
(* sequential fetch loop and its write, lines 106-111 append the script,   *)
(* lines 112-113 set the latch, lines 115-150 are the try/finally with the *)
(* concurrent fetch.                                                       *)
(*                                                                         *)
(* Strings are sequences of atoms (a character or a run of characters that *)
(* the code never splits); a JavaScript value is a record tagged with its  *)
(* typeof.                                                                 *)
(***************************************************************************)
EXTENDS Integers, Sequences, FiniteSets, TLC

\* ------------------------------------------------------------------ bounds
MaxPasses == 2      \* render passes started in one behaviour
MaxCalls == 2       \* calls of init and refresh in one behaviour
MaxTime == 1        \* whole intervals that elapse after one init()
MaxTicks == 2       \* timer callbacks run in one behaviour
MaxRawLen == 3      \* length of the raw lists the normalizer is applied to
MaxIdLen == 4       \* length of the raw container ids init() is applied to

\* ----------------------------------------------------------------- strings
WS == " "

RECURSIVE TrimLeft(_)
TrimLeft(s) == IF s # <<>> /\ Head(s) = WS THEN TrimLeft(Tail(s)) ELSE s

RECURSIVE TrimRight(_)
TrimRight(s) ==
    IF s # <<>> /\ s[Len(s)] = WS THEN TrimRight(SubSeq(s, 1, Len(s) - 1)) ELSE s

\* String.prototype.trim
Trim(s) == TrimLeft(TrimRight(s))

\* String.prototype.toLowerCase on the atoms that carry upper-case letters
ToLowerCase(a) ==
    CASE a = "WWW.TIKTOK.COM" -> "www.tiktok.com"
      [] a = "TikTok.com" -> "tiktok.com"
      [] OTHER -> a

Schemes == {"https://"}
HostAtoms == {"tiktok.com", "www.tiktok.com", "m.tiktok.com", "vm.tiktok.com",
              "WWW.TIKTOK.COM", "TikTok.com", "evil.com", "tiktok.com.evil.com"}
PathAtoms == {"/v1", "/v2"}

\* new URL(s): the parse throws unless s is scheme, host and an optional path
\* that starts with "/"; white space around the string is stripped, the host
\* of a special scheme is lower-cased.
ParseURL(s) ==
    LET u == Trim(s)
    IN  IF /\ Len(u) >= 2
           /\ u[1] \in Schemes
           /\ u[2] \in HostAtoms
           /\ (Len(u) >= 3 => u[3] \in PathAtoms)
        THEN [ok |-> TRUE, hostname |-> ToLowerCase(u[2])]
        ELSE [ok |-> FALSE, hostname |-> ""]

\* JavaScript values
JsString(s) == [t |-> "string", s |-> s]
JsNumber == [t |-> "number", s |-> <<>>]
JsArray(a) == [t |-> "array", a |-> a]
JsNull == [t |-> "null", s |-> <<>>]
JsUndefined == [t |-> "undefined", s |-> <<>>]

AllowedHosts == {"tiktok.com", "www.tiktok.com", "m.tiktok.com", "vm.tiktok.com"}

isValidTikTokUrl(url) ==
    IF url.t # "string" THEN FALSE
    ELSE LET parsed == ParseURL(Trim(url.s))
         IN  IF parsed.ok
             THEN ToLowerCase(parsed.hostname) \in AllowedHosts
             ELSE FALSE

InSeq(x, q) == \E i \in 1..Len(q) : q[i] = x

\* Set.prototype.add followed by Array.from: insertion order, no duplicates
SetAddNoDedupe(unique, x) == Append(unique, x)
SetAdd(unique, x) == IF InSeq(x, unique) THEN unique ELSE Append(unique, x)

\* the body of the forEach callback (lines 35-40)
normalizeEntry(unique, url) ==
    IF url.t # "string" THEN unique
    ELSE LET trimmed == Trim(url.s)
         IN  IF trimmed = <<>> \/ ~isValidTikTokUrl(JsString(trimmed))
             THEN unique
             ELSE SetAdd(unique, trimmed)

RECURSIVE normalizeFold(_, _)
normalizeFold(unique, rest) ==
    IF rest = <<>> THEN unique
    ELSE normalizeFold(normalizeEntry(unique, Head(rest)), Tail(rest))

\* videos is [t |-> "array", a |-> <<entries>>] or a value that is no array
normalizeVideos(videos) ==
    IF videos.t # "array" THEN <<>> ELSE normalizeFold(<<>>, videos.a)

\* normalizeContainerId without the slice(1) of line 49
normalizeContainerIdKeepHash(targetContainerId) ==
    IF targetContainerId.t # "string" THEN JsNull
    ELSE LET trimmed == Trim(targetContainerId.s)
         IN  IF trimmed = <<>> THEN JsNull ELSE JsString(trimmed)

normalizeContainerId(targetContainerId) ==
    IF targetContainerId.t # "string" THEN JsNull
    ELSE LET trimmed == Trim(targetContainerId.s)
         IN  IF trimmed = <<>> THEN JsNull
             ELSE IF Head(trimmed) = "#" THEN JsString(Tail(trimmed))
             ELSE JsString(trimmed)

\* an interval argument: a number, a string (numeric or not) or undefined
JsInterval(t, n, numeric) == [t |-> t, n |-> n, numeric |-> numeric]

\* Number(x): NaN for undefined and for a string that is no numeral
ToNumber(x) ==
    IF x.t = "number" \/ (x.t = "string" /\ x.numeric)
    THEN [nan |-> FALSE, n |-> x.n]
    ELSE [nan |-> TRUE, n |-> 0]

\* syncInterval = 0 by default (line 181), then
\* Math.max(0, Number(syncInterval) || 0) (line 187)
normalizeInterval(syncInterval) ==
    LET arg == IF syncInterval.t = "undefined" THEN JsInterval("number", 0, TRUE)
               ELSE syncInterval
        num == ToNumber(arg)
        orZero == IF num.nan \/ num.n = 0 THEN 0 ELSE num.n
    IN  IF orZero > 0 THEN orZero ELSE 0

\* ------------------------------------------------------------------- state
VARIABLES
    tiktokScriptLoaded, videoList, containerId, refreshInterval, autoSyncTimer,
    renderInProgress, pendingRender,   \* the module's variables, lines 11-17
    innerHTML,      \* content of the container element, a sequence of fragments
    scripts,        \* script elements with src https://www.tiktok.com/embed.js
    passes,         \* the invocations of renderVideos that got past line 97
    timers,         \* armed setInterval timers: [h: handle, fired: callback
                    \* already run in the current interval]
    timerSeq,       \* number of setInterval calls so far (the last handle)
    elapsed,        \* whole intervals elapsed since the last init()
    parserCalls,    \* number of runTikTokParser() calls
    lastWrite,      \* behind the last write: the list, which requests failed
                    \* and the order in which the requests ended
    lastRefresh,    \* what the last refresh() call did and returned
    stopped,        \* stop() was called and init() was not called since
    ticksSinceInit, \* timer callbacks run since the last init()
    ticksSinceStop, \* timer callbacks run since the last stop()
    rawVideos,      \* the videos argument of the last init()
    rawContainerId, \* the targetContainerId argument of the last init()
    calls,          \* calls of init and refresh so far
    ticks           \* timer callbacks run so far

vars == <<tiktokScriptLoaded, videoList, containerId, refreshInterval,
          autoSyncTimer, renderInProgress, pendingRender, innerHTML, scripts,
          passes, timers, timerSeq, elapsed, parserCalls,
          lastWrite, lastRefresh, stopped, ticksSinceInit, ticksSinceStop,
          rawVideos, rawContainerId, calls, ticks>>

\* the elements of the document that have an id
DomIds == {<<"player">>}

\* document.getElementById(id) finds an element
getElementByIdAny(id) == TRUE
getElementById(id) == id \in DomIds

\* !containerId (line 89): containerId is null or the empty string
Falsy(v) == v.t = "null" \/ (v.t = "string" /\ v.s = <<>>)

\* --------------------------------------------------------------- fragments
\* data.html of the oEmbed response for a video URL
HtmlFragment(videoUrl) == [k |-> "html", url |-> videoUrl]
\* <p style="color:red;">Failed to load TikTok video: ${videoUrl}</p>
FallbackFragment(videoUrl) == [k |-> "fail", url |-> videoUrl]
NoFragment == [k |-> "none", url |-> <<>>]

\* what a fetch can end with: a 2xx response with a string html field, a
\* rejected fetch, a non-OK status, a body without a string html field
Outcomes == {"ok", "network", "status", "nohtml"}

Return(v) == [raised |-> FALSE, value |-> v]
Throw == [raised |-> TRUE, value |-> NoFragment]

\* the try block of fetchOEmbed, lines 68-79
fetchOEmbedTry(videoUrl, outcome) ==
    IF outcome = "network" THEN Throw
    ELSE IF outcome = "status" THEN Throw
    ELSE IF outcome = "nohtml" THEN Throw
    ELSE Return(HtmlFragment(videoUrl))

\* fetchOEmbed without its catch block
fetchOEmbedNoCatch(videoUrl, outcome) == fetchOEmbedTry(videoUrl, outcome)

fetchOEmbed(videoUrl, outcome) ==
    LET r == fetchOEmbedTry(videoUrl, outcome)
    IN  IF r.raised THEN Return(FallbackFragment(videoUrl)) ELSE r

\* ------------------------------------------------------------------ passes
\* an invocation of renderVideos: where it is, what it holds, and what it did
\* (list: the Video List when it started)
NoPass == [pc |-> "done", iter |-> <<>>, i |-> 0,
           html |-> <<>>, par |-> <<>>, embeds |-> <<>>, waiting |-> {},
           fails |-> <<>>, order |-> <<>>, wrote |-> 0, fetched |-> 0, req |-> FALSE,
           overlap |-> 0, followups |-> 0, threw |-> FALSE, list |-> <<>>]

InFlight(ps) == {p \in 1..Len(ps) : ps[p].pc \in {"seq", "par"}}

\* the variables renderVideos reads and writes, as one record
Cur == [tiktokScriptLoaded |-> tiktokScriptLoaded, videoList |-> videoList,
        containerId |-> containerId, renderInProgress |-> renderInProgress,
        pendingRender |-> pendingRender, innerHTML |-> innerHTML,
        scripts |-> scripts, passes |-> passes,
        parserCalls |-> parserCalls, lastWrite |-> lastWrite,
        started |-> 0, overflow |-> FALSE]

\* container.innerHTML += markup, by pass p
WriteContainerAppend(s, p, markup, list) ==
    [s EXCEPT !.innerHTML = @ \o markup,
              !.lastWrite = [list |-> list, fails |-> s.passes[p].fails,
                             order |-> s.passes[p].order],
              !.passes[p].wrote = @ + 1]

\* container.innerHTML = markup, by pass p
WriteContainer(s, p, markup, list) ==
    [s EXCEPT !.innerHTML = markup,
              !.lastWrite = [list |-> list, fails |-> s.passes[p].fails,
                             order |-> s.passes[p].order],
              !.passes[p].wrote = @ + 1]

\* runTikTokParser, lines 52-63: one of the two hooks, when present, is called
runTikTokParser(s) == [s EXCEPT !.parserCalls = @ + 1]

\* line 106
ScriptNotLoadedAlways(loaded) == TRUE
ScriptNotLoaded(loaded) == ~loaded

\* lines 106-111: the script element is appended without a load handler
AppendScriptLegacy(s) ==
    IF ScriptNotLoaded(s.tiktokScriptLoaded)
    THEN [s EXCEPT !.scripts = Append(@, [by |-> "legacy", onload |-> FALSE,
                                         loaded |-> FALSE]),
                   !.tiktokScriptLoaded = TRUE]
    ELSE s

\* document.querySelector('script[src="https://www.tiktok.com/embed.js"]')
ExistingScript(s) == s.scripts # <<>>

\* Promise.all keeps the result of request i at index i (line 121)
StoreEmbedInCompletionOrder(embeds, i, frag) ==
    LET k == CHOOSE j \in 1..Len(embeds) :
                 /\ embeds[j] = NoFragment
                 /\ \A m \in 1..(j - 1) : embeds[m] # NoFragment
    IN  [embeds EXCEPT ![k] = frag]
StoreEmbed(embeds, i, frag) == [embeds EXCEPT ![i] = frag]

RECURSIVE renderVideos(_, _)

\* what a finished pass leaves in its record
Settle(ps) ==
    [NoPass EXCEPT !.wrote = ps.wrote, !.fetched = ps.fetched, !.req = ps.req,
                   !.overlap = ps.overlap, !.threw = ps.threw, !.list = ps.list]

\* the finally block without line 144
FinallyKeepsLatch(s, p) == [s EXCEPT !.passes[p] = Settle(s.passes[p])]

\* the finally block without lines 145-149
FinallyKeepsPending(s, p) ==
    [s EXCEPT !.renderInProgress = FALSE, !.passes[p] = Settle(s.passes[p])]

\* the finally block, lines 143-150; the pass's promise settles after it
Finally(s, p) ==
    LET s1 == [s EXCEPT !.renderInProgress = FALSE,
                        !.passes[p] = [NoPass EXCEPT
                            !.wrote = s.passes[p].wrote,
                            !.fetched = s.passes[p].fetched,
                            !.req = s.passes[p].req,
                            !.overlap = s.passes[p].overlap,
                            !.threw = s.passes[p].threw,
                            !.list = s.passes[p].list]]
    IN  IF s1.pendingRender
        THEN LET s2 == renderVideos([s1 EXCEPT !.pendingRender = FALSE], "followup")
             IN  [s2 EXCEPT !.passes[p].followups = s2.started - s1.started]
        ELSE s1

\* lines 122-142, run when every promise of Promise.all is fulfilled
AfterAll(s, p) ==
    LET ps == s.passes[p]
        s1 == WriteContainer(s, p, ps.embeds, ps.par)
    IN  IF ~s1.tiktokScriptLoaded
        THEN IF ExistingScript(s1)
             THEN Finally(runTikTokParser([s1 EXCEPT !.tiktokScriptLoaded = TRUE]), p)
             ELSE Finally([s1 EXCEPT !.scripts =
                              Append(@, [by |-> "guarded", onload |-> TRUE,
                                         loaded |-> FALSE])], p)
        ELSE Finally(runTikTokParser(s1), p)

\* lines 103-121, run when the loop of lines 100-102 is over
AfterLoop(s, p) ==
    LET ps == s.passes[p]
        s1 == WriteContainer(s, p, ps.html, ps.iter)
        s2 == AppendScriptLegacy(s1)
        s3 == [s2 EXCEPT !.renderInProgress = TRUE, !.pendingRender = FALSE]
        n  == Len(s3.videoList)
    IN  IF n = 0
        THEN Finally(WriteContainer([s3 EXCEPT !.passes[p].fails = <<>>,
                                               !.passes[p].order = <<>>],
                                    p, <<>>, <<>>), p)
        ELSE [s3 EXCEPT !.passes[p].pc = "par",
                        !.passes[p].par = s3.videoList,
                        !.passes[p].embeds = [j \in 1..n |-> NoFragment],
                        !.passes[p].fails = [j \in 1..n |-> FALSE],
                        !.passes[p].order = <<>>,
                        !.passes[p].waiting = 1..n,
                        !.passes[p].html = <<>>,
                        !.passes[p].iter = <<>>,
                        !.passes[p].i = 0,
                        !.passes[p].fetched = @ + n]

\* lines 99-101 up to the first await
StartPass(s, trig) ==
    IF Len(s.passes) >= MaxPasses THEN [s EXCEPT !.overflow = TRUE]
    ELSE
    LET p  == Len(s.passes) + 1
        fl == InFlight(s.passes)
        s1 == [s EXCEPT !.passes =
                  Append([q \in 1..Len(s.passes) |->
                             IF q \in fl
                             THEN [s.passes[q] EXCEPT !.overlap = @ + 1]
                             ELSE s.passes[q]],
                         [NoPass EXCEPT !.pc = "seq", !.iter = s.videoList,
                                        !.i = 1, !.list = s.videoList]),
                        !.started = @ + 1]
    IN  IF s.videoList = <<>>
        THEN AfterLoop(s1, p)
        ELSE [s1 EXCEPT !.passes[p].fetched = @ + 1]

\* a render request was issued while these passes were in flight
NoteRequest(s) ==
    [s EXCEPT !.passes = [q \in 1..Len(s.passes) |->
                             IF q \in InFlight(s.passes)
                             THEN [s.passes[q] EXCEPT !.req = TRUE]
                             ELSE s.passes[q]]]

renderVideos(s, trig) ==
    IF Falsy(s.containerId) THEN s
    ELSE LET s0 == IF trig = "followup" THEN s ELSE NoteRequest(s)
         IN  IF s0.renderInProgress
             THEN [s0 EXCEPT !.pendingRender = TRUE]
             ELSE IF ~getElementById(s0.containerId.s) THEN s0
             ELSE StartPass(s0, trig)

\* a fetch of the loop of lines 100-102 ends: html += result, next iteration
ResumeSeq(s, p, outcome) ==
    LET ps == s.passes[p]
        r  == fetchOEmbed(ps.iter[ps.i], outcome)
    IN  IF r.raised
        THEN [s EXCEPT !.passes[p] = [NoPass EXCEPT !.pc = "failed",
                                         !.wrote = ps.wrote,
                                         !.fetched = ps.fetched,
                                         !.req = ps.req,
                                         !.overlap = ps.overlap,
                                         !.threw = TRUE,
                                         !.list = ps.list]]
        ELSE LET s1 == [s EXCEPT !.passes[p].html = Append(@, r.value),
                                 !.passes[p].fails = Append(@, outcome # "ok"),
                                 !.passes[p].order = Append(@, ps.i),
                                 !.passes[p].i = @ + 1]
             IN  IF ps.i < Len(ps.iter)
                 THEN [s1 EXCEPT !.passes[p].fetched = @ + 1]
                 ELSE AfterLoop(s1, p)

\* one fetch of Promise.all ends (line 121)
ResumePar(s, p, i, outcome) ==
    LET ps == s.passes[p]
        r  == fetchOEmbed(ps.par[i], outcome)
    IN  IF r.raised
        THEN Finally([s EXCEPT !.passes[p].threw = TRUE], p)
        ELSE LET s1 == [s EXCEPT !.passes[p].embeds = StoreEmbed(@, i, r.value),
                                 !.passes[p].fails[i] = (outcome # "ok"),
                                 !.passes[p].order = Append(@, i),
                                 !.passes[p].waiting = @ \ {i}]
             IN  IF s1.passes[p].waiting = {} THEN AfterAll(s1, p) ELSE s1

\* ------------------------------------------------------------------ timers
TimerState == [timers |-> timers, autoSyncTimer |-> autoSyncTimer,
               timerSeq |-> timerSeq]

\* clearInterval(handle)
clearInterval(ts, handle) == {x \in ts : x.h # handle}

\* setInterval(renderVideos, refreshInterval): every timer is armed with the
\* one positive interval of IntervalInputs, so that in each interval that
\* elapses each armed timer runs its callback once
setInterval(ts, handle) == ts \cup {[h |-> handle, fired |-> FALSE]}

\* lines 155-158 and 168-171; no timer is handle 0 (null)
stopAutoSync(t) ==
    IF t.autoSyncTimer # 0
    THEN [t EXCEPT !.timers = clearInterval(@, t.autoSyncTimer),
                   !.autoSyncTimer = 0]
    ELSE t

\* lines 154-164: line 161 arms a timer whose handle is dropped, line 162
\* arms a second one and keeps its handle
startAutoSync(t, interval) ==
    LET t1 == stopAutoSync(t)
    IN  IF interval > 0
        THEN [t1 EXCEPT
                !.timers = setInterval(setInterval(@, t1.timerSeq + 1),
                                       t1.timerSeq + 2),
                !.autoSyncTimer = t1.timerSeq + 2,
                !.timerSeq = @ + 2]
        ELSE t1

\* ------------------------------------------------------------------ inputs
UrlA == <<"https://", "www.tiktok.com", "/v1">>
UrlB == <<"https://", "vm.tiktok.com", "/v2">>

VideoInputs ==
    { JsArray(<<JsString(<<WS>> \o UrlA \o <<WS>>), JsString(<<"not", WS, "a", WS, "url">>),
                JsString(UrlA), JsString(<<"https://", "evil.com", "/v1">>)>>),
      JsArray(<<JsString(UrlB), JsString(UrlA), JsString(UrlB)>>),
      JsUndefined }

ContainerInputs ==
    { JsString(<<WS, "#", "player", WS>>), JsString(<<"ghost">>), JsNull }

\* intervals that arm no timer, and one that does
NoSyncIntervals ==
    { JsInterval("undefined", 0, FALSE), JsInterval("number", 0 - 1, TRUE),
      JsInterval("string", 0, FALSE) }
IntervalInputs == NoSyncIntervals \cup {JsInterval("string", 1000, TRUE)}

\* the arguments of init() when the timer is followed
SyncVideos == JsArray(<<JsString(UrlA)>>)
SyncContainer == JsString(<<"player">>)

\* -------------------------------------------------------------------- Init
NoRefresh == [called |-> FALSE, resolvable |-> FALSE, latched |-> FALSE,
              before |-> 0, pass |-> 0, signal |-> 0]

HostScript == [by |-> "host", onload |-> FALSE, loaded |-> TRUE]

Init ==
    /\ tiktokScriptLoaded = FALSE
    /\ videoList = <<>>
    /\ containerId = JsNull
    /\ refreshInterval = 0
    /\ autoSyncTimer = 0
    /\ renderInProgress = FALSE
    /\ pendingRender = FALSE
    /\ innerHTML = <<>>
    /\ scripts \in {<<>>, <<HostScript>>}
    /\ passes = <<>>
    /\ timers = {}
    /\ timerSeq = 0
    /\ elapsed = 0
    /\ parserCalls = 0
    /\ lastWrite = [list |-> <<>>, fails |-> <<>>, order |-> <<>>]
    /\ lastRefresh = NoRefresh
    /\ stopped = FALSE
    /\ ticksSinceInit = 0
    /\ ticksSinceStop = 0
    /\ rawVideos = JsUndefined
    /\ rawContainerId = JsUndefined
    /\ calls = 0
    /\ ticks = 0

\* the variables of Cur take the values of record r
Commit(r) ==
    /\ tiktokScriptLoaded' = r.tiktokScriptLoaded
    /\ renderInProgress' = r.renderInProgress
    /\ pendingRender' = r.pendingRender
    /\ innerHTML' = r.innerHTML
    /\ scripts' = r.scripts
    /\ passes' = r.passes
    /\ parserCalls' = r.parserCalls
    /\ lastWrite' = r.lastWrite

\* ----------------------------------------------------------------- actions
\* init(videos, targetContainerId, syncInterval), lines 181-191
init(videos, targetContainerId, syncInterval) ==
    LET vl == normalizeVideos(videos)
        cid == normalizeContainerId(targetContainerId)
        iv == normalizeInterval(syncInterval)
        r == renderVideos([Cur EXCEPT !.videoList = vl, !.containerId = cid], "init")
        t == startAutoSync(TimerState, iv)
    IN  /\ calls < MaxCalls
        /\ ~r.overflow
        /\ calls' = calls + 1
        /\ videoList' = vl
        /\ containerId' = cid
        /\ refreshInterval' = iv
        /\ Commit(r)
        /\ timers' = {[x EXCEPT !.fired = FALSE] : x \in t.timers}
        /\ autoSyncTimer' = t.autoSyncTimer
        /\ timerSeq' = t.timerSeq
        /\ stopped' = FALSE
        /\ elapsed' = 0
        /\ ticksSinceInit' = 0
        /\ rawVideos' = videos
        /\ rawContainerId' = targetContainerId
        /\ ticksSinceStop' = 0
        /\ UNCHANGED <<lastRefresh, ticks>>

\* the completion signal refresh() returns (line 194): the promise of its
\* renderVideos call, which is that of the pass p the call started; 0 is a
\* promise that is already fulfilled (no pass was started)
refreshSignalNone(p) == 0
refreshSignal(p) == p

\* a completion signal has completed
Settled(signal) == signal = 0 \/ passes[signal].pc \in {"done", "failed"}

\* refresh(), lines 193-195
refresh ==
    LET r == renderVideos(Cur, "refresh")
        p == IF r.started > 0 THEN Len(passes) + 1 ELSE 0
    IN  /\ calls < MaxCalls
        /\ ~r.overflow
        /\ calls' = calls + 1
        /\ Commit(r)
        /\ lastRefresh' = [called |-> TRUE,
                           resolvable |-> /\ ~Falsy(containerId)
                                          /\ getElementById(containerId.s),
                           latched |-> renderInProgress,
                           before |-> Len(passes),
                           pass |-> p,
                           signal |-> refreshSignal(p)]
        /\ UNCHANGED <<videoList, containerId, refreshInterval, autoSyncTimer,
                       timers, timerSeq, elapsed, stopped, ticksSinceInit,
                       ticksSinceStop, rawVideos, rawContainerId, ticks>>

\* stop(), lines 197-199
stop ==
    LET t == stopAutoSync(TimerState)
    IN  /\ timers' = t.timers
        /\ autoSyncTimer' = t.autoSyncTimer
        /\ stopped' = TRUE
        /\ ticksSinceStop' = 0
        /\ UNCHANGED <<tiktokScriptLoaded, videoList, containerId,
                       refreshInterval, renderInProgress, pendingRender,
                       innerHTML, scripts, passes, timerSeq, elapsed,
                       parserCalls, lastWrite, lastRefresh,
                       ticksSinceInit, rawVideos, rawContainerId, calls,
                       ticks>>

\* the interval of an armed timer ends: its callback renderVideos runs
TimerTick(x) ==
    LET r == renderVideos(Cur, "timer")
    IN  /\ x \in timers
        /\ ~x.fired
        /\ elapsed < MaxTime
        /\ ticks < MaxTicks
        /\ ~r.overflow
        /\ ticks' = ticks + 1
        /\ Commit(r)
        /\ timers' = (timers \ {x}) \cup {[x EXCEPT !.fired = TRUE]}
        /\ ticksSinceInit' = ticksSinceInit + 1
        /\ ticksSinceStop' = IF stopped THEN ticksSinceStop + 1 ELSE ticksSinceStop
        /\ UNCHANGED <<videoList, containerId, refreshInterval, autoSyncTimer,
                       timerSeq, elapsed, lastRefresh, stopped, rawVideos,
                       rawContainerId,
                       calls>>

\* one whole interval has elapsed: every armed timer has run its callback once
AdvanceTime ==
    /\ timers # {}
    /\ \A x \in timers : x.fired
    /\ elapsed < MaxTime
    /\ elapsed' = elapsed + 1
    /\ timers' = {[x EXCEPT !.fired = FALSE] : x \in timers}
    /\ UNCHANGED <<tiktokScriptLoaded, videoList, containerId, refreshInterval,
                   autoSyncTimer, renderInProgress, pendingRender, innerHTML,
                   scripts, passes, timerSeq, parserCalls,
                   lastWrite, lastRefresh, stopped, ticksSinceInit,
                   ticksSinceStop, rawVideos, rawContainerId, calls, ticks>>

\* the fetch of request i of pass p ends with outcome
FetchDone(p, i, outcome) ==
    /\ p \in 1..Len(passes)
    /\ \/ passes[p].pc = "seq" /\ i = passes[p].i
       \/ passes[p].pc = "par" /\ i \in passes[p].waiting
    /\ LET r == IF passes[p].pc = "seq" THEN ResumeSeq(Cur, p, outcome)
                ELSE ResumePar(Cur, p, i, outcome)
       IN  /\ ~r.overflow
           /\ Commit(r)
    /\ UNCHANGED <<videoList, containerId, refreshInterval, autoSyncTimer,
                   timers, timerSeq, elapsed, lastRefresh, stopped,
                   ticksSinceInit, ticksSinceStop, rawVideos, rawContainerId,
                   calls, ticks>>

\* the load event of script element k; the handler of lines 133-136 if it has one
ScriptLoad(k) ==
    /\ k \in 1..Len(scripts)
    /\ ~scripts[k].loaded
    /\ scripts' = [scripts EXCEPT ![k].loaded = TRUE]
    /\ IF scripts[k].onload
       THEN /\ tiktokScriptLoaded' = TRUE
            /\ parserCalls' = parserCalls + 1
       ELSE UNCHANGED <<tiktokScriptLoaded, parserCalls>>
    /\ UNCHANGED <<videoList, containerId, refreshInterval, autoSyncTimer,
                   renderInProgress, pendingRender, innerHTML, passes, timers,
                   timerSeq, elapsed, lastWrite, lastRefresh,
                   stopped, ticksSinceInit, ticksSinceStop, rawVideos,
                   rawContainerId, calls,
                   ticks>>

MaxListLen == 2

\* the render pipeline: init() without auto-sync, refresh() and the fetches
Next ==
    \/ \E v \in VideoInputs, c \in ContainerInputs, n \in NoSyncIntervals : init(v, c, n)
    \/ refresh
    \/ \E p \in 1..MaxPasses, i \in 1..MaxListLen, o \in Outcomes : FetchDone(p, i, o)

Spec == Init /\ [][Next]_vars

\* the render pipeline and the load events of the script elements (the
\* host page's and at most one for each pass)
NextScript ==
    \/ Next
    \/ \E k \in 1..(MaxPasses + 1) : ScriptLoad(k)

SpecScript == Init /\ [][NextScript]_vars

\* a fetch of a pass in flight ends (a step of FetchDone: no call is made
\* and a pass in flight moves on)
FetchStep ==
    /\ calls' = calls
    /\ \E p \in InFlight(passes) : passes'[p] # passes[p]

\* the render pipeline when every fetch that was issued ends: weak fairness
\* of the fetch steps, written out, where a fetch step is possible exactly
\* when a pass is in flight
FetchesEnd == []<>(InFlight(passes) = {}) \/ []<><<FetchStep>>_vars

SpecLive == Init /\ [][Next]_vars /\ FetchesEnd

\* auto-sync: init() with one video list and container and any interval,
\* refresh(), stop(), the timers and the fetches
NextTimer ==
    \/ \E n \in IntervalInputs : init(SyncVideos, SyncContainer, n)
    \/ refresh
    \/ stop
    \/ \E x \in timers : TimerTick(x)
    \/ AdvanceTime
    \/ \E p \in 1..MaxPasses, i \in 1..MaxListLen, o \in Outcomes : FetchDone(p, i, o)

SpecTimer == Init /\ [][NextTimer]_vars

\* the normalizer: init() on every raw list of at most MaxRawLen entries,
\* with no container, so that no pass starts
RawEntries ==
    { JsString(UrlA), JsString(<<WS>> \o UrlA \o <<WS>>), JsString(UrlB),
      JsString(<<"https://", "WWW.TIKTOK.COM", "/v1">>),
      JsString(<<"https://", "evil.com", "/v1">>),
      JsString(<<"https://", "tiktok.com.evil.com">>),
      JsString(<<"www.tiktok.com", "/v1">>),
      JsString(<<"not", WS, "a", WS, "url">>),
      JsString(<<WS>>), JsNumber }

RawLists ==
    {JsUndefined} \cup
    UNION {{JsArray(a) : a \in [1..n -> RawEntries]} : n \in 0..MaxRawLen}

NextNorm ==
    /\ calls = 0
    /\ \E v \in RawLists : init(v, JsNull, JsInterval("undefined", 0, FALSE))

SpecNorm == Init /\ [][NextNorm]_vars

\* the container id normalizer: init() on every raw id of at most MaxIdLen
\* atoms and on values that are no strings, with an empty Video List
IdAtoms == {WS, "#", "player", "ghost"}

RawIds ==
    {JsNull, JsUndefined, JsNumber} \cup
    UNION {{JsString(a) : a \in [1..n -> IdAtoms]} : n \in 0..MaxIdLen}

NextId ==
    /\ calls = 0
    /\ \E c \in RawIds : init(JsUndefined, c, JsInterval("undefined", 0, FALSE))

SpecId == Init /\ [][NextId]_vars

\* ------------------------------------------------------------------ claims
AppendedScripts == {k \in 1..Len(scripts) : scripts[k].by # "host"}
DonePasses == {p \in 1..Len(passes) : passes[p].pc = "done"}

\* C1: render requests issued while a pass is in flight start no pass of
\* their own, and when that pass has finished exactly one follow-up pass was
\* started for them (not one per request, and not none).
C1_RequestsCollapseToOnePass ==
    \A p \in 1..Len(passes) :
        /\ passes[p].overlap = 0
        /\ (passes[p].pc = "done" /\ passes[p].req) => passes[p].followups = 1

\* C2: at most one render pass is between its start and its completion.
C2_AtMostOnePassInFlight == Cardinality(InFlight(passes)) <= 1

\* C3: the widget appends a script element for embed.js at most once.
C3_ScriptAppendedAtMostOnce == Cardinality(AppendedScripts) <= 1

\* two passes have completed and the script was appended by the first only
C3_Witness ==
    /\ Cardinality(AppendedScripts) = 1
    /\ Cardinality(DonePasses) >= 2
    /\ \A p \in DonePasses : passes[p].wrote >= 1

\* C4: the markup written by a pass over a non-empty list holds one fragment
\* per URL of the list, in list order, whatever the order in which the
\* fetches ended.
C4_MarkupInListOrder ==
    lastWrite.list # <<>> =>
        /\ Len(innerHTML) = Len(lastWrite.list)
        /\ \A i \in 1..Len(innerHTML) : innerHTML[i].url = lastWrite.list[i]

\* the write of a pass whose second fetch ended before its first
C4_Witness ==
    /\ lastWrite.list = <<UrlB, UrlA>>
    /\ lastWrite.order = <<2, 1>>
    /\ Len(innerHTML) = 2

\* C5: a failed fetch raises nothing and puts the fallback fragment naming
\* its URL at that URL's position; the other URLs of the pass are rendered
\* with their own fragments.
C5_FallbackInPlace ==
    /\ \A p \in 1..Len(passes) : ~passes[p].threw /\ passes[p].pc # "failed"
    /\ Len(innerHTML) = Len(lastWrite.list)
    /\ \A i \in 1..Len(innerHTML) :
          innerHTML[i] = IF lastWrite.fails[i]
                         THEN FallbackFragment(lastWrite.list[i])
                         ELSE HtmlFragment(lastWrite.list[i])

\* a write with the fallback for the first URL and the html of the second
C5_Witness ==
    /\ lastWrite.list = <<UrlB, UrlA>>
    /\ lastWrite.fails = <<TRUE, FALSE>>
    /\ innerHTML = <<FallbackFragment(UrlB), HtmlFragment(UrlA)>>

\* C6: after stop() no timer callback runs until init() is called again.
C6_NoTickAfterStop == stopped => ticksSinceStop = 0

\* C7: after init() with a positive interval (and no stop()), the number of
\* render requests made by timers is the number of whole intervals elapsed,
\* plus at most one for the interval that is ending.
C7_OneTickPerInterval ==
    (refreshInterval > 0 /\ ~stopped) =>
        /\ ticksSinceInit >= elapsed
        /\ ticksSinceInit <= elapsed + 1

\* C8: at most one timer is armed, and an armed timer is the one the handle
\* autoSyncTimer records.
C8_OnlyTheRecordedTimer ==
    /\ Cardinality(timers) <= 1
    /\ \A x \in timers : x.h = autoSyncTimer

\* C9: the Video List init() builds holds exactly the trimmed string entries
\* whose hostname is in the allow-list, each once, in order of first
\* occurrence; the list is empty when the argument is no array.
EntryAccepted(e) ==
    /\ e.t = "string"
    /\ ParseURL(Trim(e.s)).ok
    /\ ToLowerCase(ParseURL(Trim(e.s)).hostname) \in AllowedHosts

FirstOccurrence(raw, s) ==
    CHOOSE j \in 1..Len(raw) :
        /\ raw[j].t = "string" /\ Trim(raw[j].s) = s
        /\ \A m \in 1..(j - 1) : ~(raw[m].t = "string" /\ Trim(raw[m].s) = s)

C9_NormalizedVideoList ==
    calls > 0 =>
        LET raw == IF rawVideos.t = "array" THEN rawVideos.a ELSE <<>>
        IN  /\ \A i \in 1..Len(videoList) :
                  \E j \in 1..Len(raw) :
                      EntryAccepted(raw[j]) /\ Trim(raw[j].s) = videoList[i]
            /\ \A j \in 1..Len(raw) :
                  EntryAccepted(raw[j]) => InSeq(Trim(raw[j].s), videoList)
            /\ \A i, k \in 1..Len(videoList) :
                  i < k => /\ videoList[i] # videoList[k]
                           /\ FirstOccurrence(raw, videoList[i])
                                < FirstOccurrence(raw, videoList[k])

\* a padded URL, another host and the same URL again give one entry
C9_Witness ==
    /\ calls = 1
    /\ rawVideos = JsArray(<<JsString(<<WS>> \o UrlA \o <<WS>>),
                             JsString(<<"https://", "evil.com", "/v1">>),
                             JsString(UrlA)>>)
    /\ videoList = <<UrlA>>

\* C10 as stated: once the signal of a refresh() made with a resolvable
\* container has completed, a pass started at or after that call has
\* completed and has written the container.
C10_SignalWaitsForAPass ==
    (lastRefresh.called /\ lastRefresh.resolvable /\ Settled(lastRefresh.signal)) =>
        \E p \in (lastRefresh.before + 1)..Len(passes) :
            passes[p].pc = "done" /\ passes[p].wrote >= 1

\* C10 amended: the signal of a refresh() made with a resolvable container
\* while renderInProgress is false completes only when the pass that call
\* started has completed and has written the container; a refresh() made
\* while renderInProgress is true starts no pass and its signal is complete
\* at once.
C10_SignalOfOwnPass ==
    (lastRefresh.called /\ lastRefresh.resolvable) =>
        /\ lastRefresh.latched =>
              lastRefresh.pass = 0 /\ lastRefresh.signal = 0
        /\ (~lastRefresh.latched /\ Settled(lastRefresh.signal)) =>
              /\ lastRefresh.pass > lastRefresh.before
              /\ passes[lastRefresh.pass].pc = "done"
              /\ passes[lastRefresh.pass].wrote >= 1

\* the signal of a refresh() that started a pass over a non-empty list has
\* completed
C10_Witness ==
    /\ lastRefresh.called /\ lastRefresh.resolvable /\ ~lastRefresh.latched
    /\ lastRefresh.signal # 0
    /\ Settled(lastRefresh.signal)
    /\ passes[lastRefresh.signal].fetched > 0

\* C11: for a string with a character that is no white space, the container
\* id init() keeps is the string without the white space at its two ends and
\* without the '#' it then starts with, if it does ("#player" and "player"
\* both give "player"); for the empty string, a string of white space only
\* and a value that is no string it is null.
C11_NormalizedContainerId ==
    calls > 0 =>
        LET s == rawContainerId.s
            core == {k \in 1..Len(s) : s[k] # WS}
        IN  /\ (rawContainerId.t # "string" \/ core = {}) => containerId = JsNull
            /\ (rawContainerId.t = "string" /\ core # {}) =>
                  \E a, b \in core :
                      /\ \A k \in core : a <= k /\ k <= b
                      /\ containerId =
                            JsString(SubSeq(s, IF s[a] = "#" THEN a + 1 ELSE a, b))
            /\ rawContainerId \in {JsString(<<"#", "player">>), JsString(<<"player">>)}
                  => containerId = JsString(<<"player">>)

\* init() was given " #player " and keeps "player"
C11_Witness ==
    /\ calls = 1
    /\ rawContainerId = JsString(<<WS, "#", "player", WS>>)
    /\ containerId = JsString(<<"player">>)

\* C12: when the document holds a script element for embed.js that the
\* widget did not append (the host page's), the widget appends none, and a
\* pass that has written the markup of its fetches has called the parse hook.
C12_NoAppendWhenScriptExists ==
    (scripts # <<>> /\ scripts[1].by = "host") =>
        /\ AppendedScripts = {}
        /\ \A p \in DonePasses : passes[p].fetched > 0 => parserCalls >= 1

\* C13: the flag tiktokScriptLoaded is true, and the parse hook has been
\* called, only when a script element for embed.js has had its load event or
\* was in the document before the widget ran.
C13_FlagOnlyAfterLoad ==
    (tiktokScriptLoaded \/ parserCalls > 0) =>
        \E k \in 1..Len(scripts) : scripts[k].loaded \/ scripts[k].by = "host"

\* a container id that is null or names no element of the document
Unresolvable(cid) == cid.t # "string" \/ cid.s \notin DomIds

\* a step that starts no pass, issues no fetch, writes nothing, appends no
\* script, calls no hook, raises nothing and leaves renderInProgress alone
NoRenderEffect ==
    /\ Len(passes') = Len(passes)
    /\ \A p \in 1..Len(passes) :
          /\ passes'[p].pc = passes[p].pc
          /\ passes'[p].fetched = passes[p].fetched
          /\ passes'[p].wrote = passes[p].wrote
          /\ passes'[p].threw = passes[p].threw
    /\ innerHTML' = innerHTML
    /\ scripts' = scripts
    /\ parserCalls' = parserCalls
    /\ tiktokScriptLoaded' = tiktokScriptLoaded
    /\ renderInProgress' = renderInProgress

\* C14 as stated: a call of init() or refresh() whose renderVideos runs with
\* a container id that is null or names no element has no effect on the
\* render state, and leaves both flags of the latch as they were.
C14_UnresolvableIsNoOp ==
    [][(calls' = calls + 1 /\ Unresolvable(containerId'))
          => (NoRenderEffect /\ pendingRender' = pendingRender)]_vars

\* C14 amended: such a call starts no pass, issues no fetch, writes nothing,
\* appends no script, raises nothing and leaves renderInProgress as it was;
\* it leaves pendingRender as it was when the id is null or empty or when
\* renderInProgress is false, and sets pendingRender when the id is a
\* non-empty string and renderInProgress is true.  The follow-up call that a
\* finishing pass makes with such an id starts no pass.
C14_UnresolvableStartsNothing ==
    [][/\ (calls' = calls + 1 /\ Unresolvable(containerId')) =>
             /\ NoRenderEffect
             /\ pendingRender' =
                   (pendingRender \/
                    (containerId'.t = "string" /\ containerId'.s # <<>>
                        /\ renderInProgress))
       /\ (calls' = calls /\ Unresolvable(containerId)) =>
             Len(passes') = Len(passes)]_vars

\* init() was called with a container id that names no element while a pass
\* held the latch: the pass goes on and pendingRender is set
C14_Witness ==
    /\ containerId = JsString(<<"ghost">>)
    /\ renderInProgress
    /\ pendingRender
    /\ InFlight(passes) # {}

\* C15: a pass that starts with an empty Video List and a container that
\* resolves is over within the call that started it: it has issued no fetch
\* and has written the container, whose content is then empty, and
\* renderInProgress is false; no request can be made while it runs, and had
\* one been made the pass would have started one follow-up.
C15_EmptyListPass ==
    [][\A p \in (Len(passes) + 1)..Len(passes') :
          passes'[p].list = <<>> =>
              /\ passes'[p].pc = "done"
              /\ passes'[p].fetched = 0
              /\ passes'[p].wrote >= 1
              /\ ~passes'[p].threw
              /\ innerHTML' = <<>>
              /\ ~renderInProgress'
              /\ passes'[p].req => passes'[p].followups = 1]_vars

\* a pass over a list of two has filled the container, and its follow-up
\* pass over the empty list has emptied it
C15_Witness ==
    /\ Len(passes) = 2
    /\ passes[1].pc = "done" /\ passes[1].fetched = 4 /\ passes[1].followups = 1
    /\ passes[2].pc = "done" /\ passes[2].list = <<>> /\ passes[2].fetched = 0
    /\ innerHTML = <<>>
    /\ ~renderInProgress

\* C16: when every fetch ends, there comes a time from which every pass that
\* has started has completed (none by an error) and renderInProgress is
\* false; and renderInProgress is true only while a pass is awaiting its
\* fetches of line 121, and a pass in flight is always awaiting a fetch it
\* has issued.
C16_EveryPassCompletes ==
    /\ <>[](/\ \A p \in 1..Len(passes) : passes[p].pc = "done"
            /\ ~renderInProgress)
    /\ [](renderInProgress => \E p \in InFlight(passes) : passes[p].pc = "par")
    /\ [](\A p \in InFlight(passes) :
            \/ passes[p].pc = "seq" /\ passes[p].i \in 1..Len(passes[p].iter)
            \/ passes[p].pc = "par" /\ passes[p].waiting # {}
                                     /\ passes[p].waiting \subseteq 1..Len(passes[p].par))

\* a pass has made its fetches and has completed, no pass is running and
\* renderInProgress is false
C16_Witness ==
    /\ \E p \in DonePasses : passes[p].fetched >= 2 /\ passes[p].wrote = 2
    /\ InFlight(passes) = {}
    /\ ~renderInProgress

\* the container content is the markup of the fetches for list
MarkupFor(list) ==
    /\ Len(innerHTML) = Len(list)
    /\ \A i \in 1..Len(list) : innerHTML[i].url = list[i]

\* C17: once a pass that started over the current Video List has completed
\* (the container id resolving), the last write of the container is one for
\* that list, so that a write of a pass over the previous list never comes
\* after it; and when no pass is left in flight the container content is the
\* markup for the current list.
C17_NewListSupersedes ==
    (/\ ~Unresolvable(containerId)
     /\ \E p \in DonePasses : passes[p].list = videoList /\ passes[p].wrote >= 1)
        => /\ lastWrite.list = videoList
           /\ (InFlight(passes) = {} /\ ~pendingRender) => MarkupFor(videoList)

\* C18: between events pendingRender is true only if renderInProgress is
\* true, so that the latch is idle (neither flag), rendering
\* (renderInProgress alone) or rendering with a request pending (both).
C18_PendingOnlyWhileRendering == pendingRender => renderInProgress

\* a request was made while a pass held the latch: both flags are set
C18_Witness ==
    /\ pendingRender
    /\ renderInProgress
    /\ \E p \in InFlight(passes) : passes[p].pc = "par" /\ passes[p].req

\* C19: a pass has issued at most one fetch for each entry of the Video List
\* it started over, and exactly one for each when it has completed.
C19_OneFetchPerEntry ==
    \A p \in 1..Len(passes) :
        /\ passes[p].fetched <= Len(passes[p].list)
        /\ passes[p].pc = "done" => passes[p].fetched = Len(passes[p].list)

====
